---- MODULE Spec2Model ----
(***************************************************************************)
(* State-machine model of the Anchor program `arbitrage_program`          *)
(* (programs/program/src/lib.rs).                                          *)
(*                                                                         *)
(* One ArbitrageState account exists per authority key, at the program     *)
(* derived address seeded with that key.  Every instruction is one atomic  *)
(* transaction: the account constraints of its Accounts struct are checked *)
(* first, then the handler body runs; an error (or a panic) discards every *)
(* account write of the instruction.                                       *)
(*                                                                         *)
(* `last` records the most recent instruction: its name, signer, addressed *)
(* account, arguments, result, the events it emitted, the external calls   *)
(* it issued (in order) and the accounts as they were before it ran.       *)
(* `event_log` summarises, per account, the execution events the program   *)
(* has emitted for it since it was created.                                *)
(***************************************************************************)
EXTENDS Integers, Sequences, FiniteSets, TLC

VARIABLES accounts, now, overflow_checks, last, event_log

vars == <<accounts, now, overflow_checks, last, event_log>>

----------------------------------------------------------------------------
(* Bounds of the model *)

\* u64 is modelled with U64Bits bits (TLC's integers have 32).
U64Bits == 26
\* The clock runs from 0 to MaxTime.
MaxTime == 2
\* At most MaxTrades executions commit in one behaviour (all accounts).
MaxTrades == 2

U64Mod == 2 ^ U64Bits
U64Max == U64Mod - 1

----------------------------------------------------------------------------
(* Program constants *)

\* require!(routes.len() <= 4, ...)
MaxHops == 4
\* amount * 9 / 10000
FeeNumerator == 9
FeeDenominator == 10000

----------------------------------------------------------------------------
(* Input domains *)

Keys == {"alice", "bob"}

\* i64 values passed as min_execution_interval
Intervals == {-1, 2}

Route(dex, inm, outm, ain, mout) ==
    [dex_id |-> dex, input_mint |-> inm, output_mint |-> outm,
     amount_in |-> ain, min_amount_out |-> mout]

OrcaRoute == Route("Orca", "SOL", "USDC", 5, 4)
RaydiumRoute == Route("Raydium", "USDC", "RAY", 4, 3)
JupiterRoute == Route("Jupiter", "RAY", "SOL", 3, 6)
ZeroAmountRoute == Route("Orca", "SOL", "USDC", 0, 0)
SameMintRoute == Route("Raydium", "SOL", "SOL", 5, 4)

RouteVecs ==
    { <<>>,
      <<OrcaRoute>>,
      <<OrcaRoute, RaydiumRoute, JupiterRoute, OrcaRoute>>,
      <<OrcaRoute, RaydiumRoute, JupiterRoute, OrcaRoute, RaydiumRoute>>,
      <<ZeroAmountRoute>>,
      <<OrcaRoute, SameMintRoute>> }

\* expected_profit of flash_arbitrage
ExpectedProfits == {0, 1000, U64Max}

\* 1000000 has fee 900; FeeWrapAmount is the least amount whose product
\* with 9 does not fit the integer width.
FeeWrapAmount == (U64Max \div FeeNumerator) + 1
FlashLoanAmounts == {0, 1000000, FeeWrapAmount}

\* What the external lending program does with the two invokes.
LendingOutcomes == {"ok", "borrow_fails", "repay_fails"}

\* The loans explored: the amount 1000000 (fee 900) with the expected
\* profits 0, 900 (the fee) and 1000 and with each lending outcome, and the
\* other amounts with a lending program that accepts both invokes.
Loan(amount, expected_profit, lending) ==
    [flash_loan_amount |-> amount, expected_profit |-> expected_profit,
     lending |-> lending]
Loans ==
    { Loan(1000000, e, "ok") : e \in {0, 900, 1000} }
    \cup { Loan(1000000, 1000, l) : l \in LendingOutcomes }
    \cup { Loan(a, 1000, "ok") : a \in FlashLoanAmounts }

WithdrawAmounts == {0, 1000}

None == [some |-> FALSE]
Some(v) == [some |-> TRUE, val |-> v]
IntervalOptions == {None} \cup {Some(v) : v \in Intervals}

\* Pubkey::default() and another key, for the accounts of OrcaSwap
DefaultPubkey == "11111111111111111111111111111111"
GoodOrcaAccounts ==
    [whirlpool |-> "pool", token_owner_account_a |-> "ta", token_owner_account_b |-> "tb"]
BadOrcaAccounts ==
    {
      [whirlpool |-> DefaultPubkey, token_owner_account_a |-> "ta", token_owner_account_b |-> "tb"],
      [whirlpool |-> "pool", token_owner_account_a |-> DefaultPubkey, token_owner_account_b |-> "tb"],
      [whirlpool |-> "pool", token_owner_account_a |-> "ta", token_owner_account_b |-> DefaultPubkey] }

\* The orca_swap requests explored.
OrcaRequest(accs, amount, swap_ok) ==
    [accs |-> accs, amount |-> amount, swap_ok |-> swap_ok]
OrcaRequests ==
    { OrcaRequest(GoodOrcaAccounts, 5, TRUE),
      OrcaRequest(GoodOrcaAccounts, 5, FALSE),
      OrcaRequest(GoodOrcaAccounts, 0, TRUE) }
    \cup { OrcaRequest(a, 5, TRUE) : a \in BadOrcaAccounts }

----------------------------------------------------------------------------
(* The ArbitrageState account *)

NoAccount == [initialized |-> FALSE]

\* The canonical bump of the address derived from a key.
CanonicalBump(k) == IF k = "alice" THEN 255 ELSE 254

ArbitrageState(authority, is_paused, min_execution_interval, last_execution_time, total_trades, total_profit, bump) ==
    [initialized |-> TRUE,
     authority |-> authority,
     is_paused |-> is_paused,
     min_execution_interval |-> min_execution_interval,
     last_execution_time |-> last_execution_time,
     total_trades |-> total_trades,
     total_profit |-> total_profit,
     bump |-> bump]

----------------------------------------------------------------------------
(* Fixed-width arithmetic.  `+=` and `*` on u64 panic when the build has   *)
(* overflow checks and wrap when it has not.                               *)

AddOverflows(a, b) == a + b > U64Max
WrappingAdd(a, b) == (a + b) % U64Mod
MulOverflows(a, b) == a * b > U64Max
WrappingMul(a, b) == (a * b) % U64Mod
SaturatingSub(a, b) == IF a >= b THEN a - b ELSE 0

FeeOverflows(amount) == MulOverflows(amount, FeeNumerator)

calculate_flash_loan_fee(amount) ==
    WrappingMul(amount, FeeNumerator) \div FeeDenominator

----------------------------------------------------------------------------
(* Outcomes of a handler: the result, the account as the handler leaves    *)
(* it, the events emitted and the external calls issued.                   *)

\* A handler that returns Ok without its emit!.
Ok_NoEmit(st, events, calls) ==
    [result |-> "Ok", st |-> st, events |-> <<>>, calls |-> calls]

Ok(st, events, calls) ==
    [result |-> "Ok", st |-> st, events |-> events, calls |-> calls]

Err(st, e, calls) ==
    [result |-> e, st |-> st, events |-> <<>>, calls |-> calls]

----------------------------------------------------------------------------
(* Account constraints.  `signer` signs the instruction and `target` is    *)
(* the key whose derived address is passed as `arbitrage_state`.           *)

\* seeds = [b"arbitrage_state", <signer>.key()], bump = arbitrage_state.bump
SeedsMatch(signer, target, bump) ==
    signer = target /\ bump = CanonicalBump(target)

\* The constraints of the execution instructions without the seeds.
UserAccounts_AnySigner(accts, signer, target) ==
    IF ~accts[target].initialized THEN "AccountNotInitialized"
    ELSE "Ok"

\* The constraints of the execution instructions, were they to load the
\* signer's own account besides the one passed.
UserAccounts_SignerRecord(accts, signer, target) ==
    IF ~accts[signer].initialized \/ ~accts[target].initialized
    THEN "AccountNotInitialized"
    ELSE IF ~SeedsMatch(signer, target, accts[target].bump) THEN "ConstraintSeeds"
    ELSE "Ok"

\* FlashArbitrage, OrcaSwap, FlashLoanArbitrage: mut, seeds, bump
UserAccounts(accts, signer, target) ==
    IF ~accts[target].initialized THEN "AccountNotInitialized"
    ELSE IF ~SeedsMatch(signer, target, accts[target].bump) THEN "ConstraintSeeds"
    ELSE "Ok"

\* The runtime grants no write lock on the system program, whose id is
\* Pubkey::default(): an account with that key is never writable.
IsWritable(key) == key # DefaultPubkey

\* OrcaSwap: the constraints of arbitrage_state, then #[account(mut)] on the
\* whirlpool and the token accounts, in the order of the fields.
OrcaSwapAccounts(accts, signer, target, accs) ==
    IF UserAccounts(accts, signer, target) # "Ok"
    THEN UserAccounts(accts, signer, target)
    ELSE IF ~IsWritable(accs.whirlpool) THEN "ConstraintMut"
    ELSE IF ~IsWritable(accs.token_owner_account_a) THEN "ConstraintMut"
    ELSE IF ~IsWritable(accs.token_owner_account_b) THEN "ConstraintMut"
    ELSE "Ok"

\* PauseBot, ResumeBot, UpdateBotConfig, WithdrawProfits:
\* mut, seeds, bump, has_one = authority @ Unauthorized
AuthorityAccounts(accts, signer, target) ==
    IF ~accts[target].initialized THEN "AccountNotInitialized"
    ELSE IF ~SeedsMatch(signer, target, accts[target].bump) THEN "ConstraintSeeds"
    ELSE IF accts[target].authority # signer THEN "Unauthorized"
    ELSE "Ok"

\* The constraints of initialize as init_if_needed would have them.
InitAccounts_IfNeeded(accts, signer, target) ==
    IF signer # target THEN "ConstraintSeeds"
    ELSE "Ok"

\* InitializeArbitrageState: init, seeds, bump, payer = authority
InitAccounts(accts, signer, target) ==
    IF signer # target THEN "ConstraintSeeds"
    ELSE IF accts[target].initialized THEN "AccountAlreadyInUse"
    ELSE "Ok"

----------------------------------------------------------------------------
(* Instruction handlers *)

initialize_arbitrage_state(authority, min_execution_interval, clock) ==
    Ok(ArbitrageState(authority, FALSE, min_execution_interval, 0, 0, 0,
                      CanonicalBump(authority)),
       << [kind |-> "ArbitrageStateInitialized", authority |-> authority,
           min_execution_interval |-> min_execution_interval,
           timestamp |-> clock] >>,
       <<>>)

\* Mutant of IsPaused: the pause flag is never consulted.
IsPaused_Ignored(st) == FALSE

\* require!(!arbitrage_state.is_paused, BotPaused)
IsPaused(st) == st.is_paused

\* Mutant of RouteCountError: `<` for `<=`, four routes are refused.
RouteCountError_OffByOne(routes) ==
    IF Len(routes) = 0 THEN "EmptyRoutes"
    ELSE IF ~(Len(routes) < MaxHops) THEN "TooManyHops"
    ELSE "Ok"

\* require!(!routes.is_empty(), EmptyRoutes); require!(routes.len() <= 4, TooManyHops)
RouteCountError(routes) ==
    IF Len(routes) = 0 THEN "EmptyRoutes"
    ELSE IF ~(Len(routes) <= MaxHops) THEN "TooManyHops"
    ELSE "Ok"

\* Mutant of SafetyChecks: the profit target is checked before the routes.
SafetyChecks_Reordered(st, routes, expected_profit) ==
    IF IsPaused(st) THEN "BotPaused"
    ELSE IF ~(expected_profit > 0) THEN "InvalidAmount"
    ELSE IF RouteCountError(routes) # "Ok" THEN RouteCountError(routes)
    ELSE "Ok"

\* The safety checks that open flash_arbitrage and flash_loan_arbitrage.
SafetyChecks(st, routes, expected_profit) ==
    IF IsPaused(st) THEN "BotPaused"
    ELSE IF RouteCountError(routes) # "Ok" THEN RouteCountError(routes)
    ELSE IF ~(expected_profit > 0) THEN "InvalidAmount"
    ELSE "Ok"

\* Mutant of RateLimitOk: `>` for `>=`.
RateLimitOk_Strict(st, current_time) ==
    LET time_since_last == current_time - st.last_execution_time
    IN time_since_last > st.min_execution_interval

\* Rate limiting check of flash_arbitrage
RateLimitOk(st, current_time) ==
    LET time_since_last == current_time - st.last_execution_time
    IN time_since_last >= st.min_execution_interval

\* The counter updates panic on overflow when the build checks overflow.
UpdatePanics(st, profit, oc) ==
    oc /\ (AddOverflows(st.total_trades, 1) \/ AddOverflows(st.total_profit, profit))

\* Mutant of UpdateState: total_trades is not incremented.
UpdateState_NoCount(st, current_time, profit) ==
    [st EXCEPT !.last_execution_time = current_time,
               !.total_profit = WrappingAdd(@, profit)]

\* "Update state after successful execution"
UpdateState(st, current_time, profit) ==
    [st EXCEPT !.last_execution_time = current_time,
               !.total_trades = WrappingAdd(@, 1),
               !.total_profit = WrappingAdd(@, profit)]

flash_arbitrage(st, user, routes, expected_profit, clock, oc) ==
    IF SafetyChecks(st, routes, expected_profit) # "Ok"
    THEN Err(st, SafetyChecks(st, routes, expected_profit), <<>>)
    ELSE
      LET current_time == clock IN
      IF ~RateLimitOk(st, current_time)
      THEN Err(st, "ExecutionTooFrequent", <<>>)
      ELSE IF UpdatePanics(st, expected_profit, oc)
      THEN Err(st, "Panic", <<>>)
      ELSE Ok(UpdateState(st, current_time, expected_profit),
              << [kind |-> "ArbitrageExecuted", user |-> user,
                  profit |-> expected_profit, routes |-> Len(routes),
                  timestamp |-> current_time] >>,
              <<>>)

\* validate_accounts of OrcaSwap
validate_accounts(accs) ==
    IF accs.whirlpool = DefaultPubkey THEN "AccountValidationFailed"
    ELSE IF accs.token_owner_account_a = DefaultPubkey THEN "AccountValidationFailed"
    ELSE IF accs.token_owner_account_b = DefaultPubkey THEN "AccountValidationFailed"
    ELSE "Ok"

OrcaCall(amount, other_amount_threshold, a_to_b) ==
    [kind |-> "swap", dex |-> "Orca", amount_in |-> amount,
     min_amount_out |-> other_amount_threshold]

orca_swap(st, user, accs, amount, other_amount_threshold, a_to_b, swap_ok, clock, oc) ==
    IF IsPaused(st) THEN Err(st, "BotPaused", <<>>)
    ELSE IF ~(amount > 0) THEN Err(st, "InvalidAmount", <<>>)
    ELSE IF validate_accounts(accs) # "Ok" THEN Err(st, validate_accounts(accs), <<>>)
    ELSE
      LET calls == << OrcaCall(amount, other_amount_threshold, a_to_b) >> IN
      IF ~swap_ok THEN Err(st, "InvokeFailed", calls)
      ELSE IF oc /\ AddOverflows(st.total_trades, 1) THEN Err(st, "Panic", calls)
      ELSE Ok([st EXCEPT !.total_trades = WrappingAdd(@, 1),
                         !.last_execution_time = clock],
              << [kind |-> "OrcaSwapExecuted", user |-> user,
                  whirlpool |-> accs.whirlpool, amount |-> amount,
                  other_amount_threshold |-> other_amount_threshold,
                  a_to_b |-> a_to_b, timestamp |-> clock] >>,
              calls)

\* execute_orca/raydium/jupiter_swap_with_flash_loan: one dispatch per route,
\* in route order; none of the three can fail.
SwapCalls(routes) ==
    [i \in 1..Len(routes) |->
        [kind |-> "swap", dex |-> routes[i].dex_id,
         amount_in |-> routes[i].amount_in,
         min_amount_out |-> routes[i].min_amount_out]]

BorrowCall(amount) == [kind |-> "borrow", amount |-> amount]
RepayCall(amount) == [kind |-> "repay", amount |-> amount]

flash_loan_arbitrage(st, user, flash_loan_amount, routes, expected_profit, lending, clock, oc) ==
    IF SafetyChecks(st, routes, expected_profit) # "Ok"
    THEN Err(st, SafetyChecks(st, routes, expected_profit), <<>>)
    ELSE IF ~(flash_loan_amount > 0) THEN Err(st, "InvalidAmount", <<>>)
    ELSE
      \* Step 1: flash loan
      LET borrowed == << BorrowCall(flash_loan_amount) >> IN
      IF lending = "borrow_fails" THEN Err(st, "InvokeFailed", borrowed)
      ELSE
      \* Step 2: the routes
      LET swapped == borrowed \o SwapCalls(routes) IN
      \* Step 3: repay
      IF oc /\ FeeOverflows(flash_loan_amount) THEN Err(st, "Panic", swapped)
      ELSE
      LET flash_loan_fee == calculate_flash_loan_fee(flash_loan_amount) IN
      IF oc /\ AddOverflows(flash_loan_amount, flash_loan_fee)
      THEN Err(st, "Panic", swapped)
      ELSE
      LET repay_amount == WrappingAdd(flash_loan_amount, flash_loan_fee)
          repaid == swapped \o << RepayCall(repay_amount) >>
      IN
      IF lending = "repay_fails" THEN Err(st, "InvokeFailed", repaid)
      ELSE
      \* Step 4: profit
      LET actual_profit == SaturatingSub(expected_profit, flash_loan_fee) IN
      IF ~(actual_profit > 0) THEN Err(st, "InsufficientProfit", repaid)
      ELSE
      LET current_time == clock IN
      IF UpdatePanics(st, actual_profit, oc)
      THEN Err(st, "Panic", repaid)
      ELSE Ok(UpdateState(st, current_time, actual_profit),
              << [kind |-> "FlashLoanArbitrageExecuted", user |-> user,
                  flash_loan_amount |-> flash_loan_amount,
                  profit |-> actual_profit, routes |-> Len(routes),
                  timestamp |-> current_time] >>,
              repaid)

\* pause_bot as a switch that flips the flag.
pause_bot_Flip(st, authority, clock) ==
    Ok([st EXCEPT !.is_paused = ~@],
       << [kind |-> "BotPaused", authority |-> authority, timestamp |-> clock] >>,
       <<>>)

pause_bot(st, authority, clock) ==
    Ok([st EXCEPT !.is_paused = TRUE],
       << [kind |-> "BotPaused", authority |-> authority, timestamp |-> clock] >>,
       <<>>)

resume_bot(st, authority, clock) ==
    Ok([st EXCEPT !.is_paused = FALSE],
       << [kind |-> "BotResumed", authority |-> authority, timestamp |-> clock] >>,
       <<>>)

\* update_bot_config with None read as unwrap_or_default().
update_bot_config_Default(st, authority, new_min_execution_interval, clock) ==
    Ok([st EXCEPT !.min_execution_interval =
                      IF new_min_execution_interval.some
                      THEN new_min_execution_interval.val ELSE 0],
       << [kind |-> "BotConfigUpdated", authority |-> authority,
           new_min_execution_interval |-> new_min_execution_interval,
           timestamp |-> clock] >>,
       <<>>)

update_bot_config(st, authority, new_min_execution_interval, clock) ==
    Ok(IF new_min_execution_interval.some
       THEN [st EXCEPT !.min_execution_interval = new_min_execution_interval.val]
       ELSE st,
       << [kind |-> "BotConfigUpdated", authority |-> authority,
           new_min_execution_interval |-> new_min_execution_interval,
           timestamp |-> clock] >>,
       <<>>)

\* withdraw_profits taking the amount off the recorded profit.
withdraw_profits_Deduct(st, authority, amount, clock) ==
    Ok([st EXCEPT !.total_profit = SaturatingSub(@, amount)],
       << [kind |-> "ProfitsWithdrawn", authority |-> authority,
           amount |-> amount, timestamp |-> clock] >>,
       <<>>)

withdraw_profits(st, authority, amount, clock) ==
    Ok(st,
       << [kind |-> "ProfitsWithdrawn", authority |-> authority,
           amount |-> amount, timestamp |-> clock] >>,
       <<>>)

----------------------------------------------------------------------------
(* Transactions *)

\* The outcome of an instruction whose account constraints fail.
Rejected(accts, target, check) == Err(accts[target], check, <<>>)

\* One instruction as one transaction: the account is written back only
\* when the instruction returns Ok; the instruction is recorded in `last`.
\* The log of one account: how many ArbitrageExecuted and
\* FlashLoanArbitrageExecuted events were emitted for it, the sum of their
\* profit fields, and how many OrcaSwapExecuted events.
EmptyLog == [executed |-> 0, profit |-> 0, swapped |-> 0]

LogEvent(entry, e) ==
    IF e.kind \in {"ArbitrageExecuted", "FlashLoanArbitrageExecuted"}
    THEN [entry EXCEPT !.executed = @ + 1, !.profit = @ + e.profit]
    ELSE IF e.kind = "OrcaSwapExecuted"
    THEN [entry EXCEPT !.swapped = @ + 1]
    ELSE entry

RECURSIVE LogEvents(_, _)
LogEvents(entry, events) ==
    IF events = <<>> THEN entry
    ELSE LogEvents(LogEvent(entry, Head(events)), Tail(events))

Transaction(op, signer, target, args, out) ==
    /\ accounts' = IF out.result = "Ok"
                   THEN [accounts EXCEPT ![target] = out.st]
                   ELSE accounts
    /\ last' = [op |-> op, signer |-> signer, target |-> target, args |-> args,
                result |-> out.result, events |-> out.events,
                calls |-> out.calls, pre |-> accounts, time |-> now]
    /\ event_log' = IF out.result = "Ok"
                    THEN [event_log EXCEPT ![target] = LogEvents(@, out.events)]
                    ELSE event_log
    /\ UNCHANGED <<now, overflow_checks>>

TotalTrades ==
    LET n(k) == IF accounts[k].initialized THEN accounts[k].total_trades ELSE 0
    IN n("alice") + n("bob")

\* Executions are explored while fewer than MaxTrades have committed.
TradeBudget == TotalTrades < MaxTrades

\* No instruction is recorded.
Idle ==
    [op |-> "none", signer |-> "none", target |-> "none", args |-> <<>>,
     result |-> "none", events |-> <<>>, calls |-> <<>>,
     pre |-> [k \in Keys |-> NoAccount], time |-> 0]

\* The outcome of the previous instruction has been read: the next one may run.
Ready == last.op = "none"

\* The argument values explored: all of S when the signer addresses its own
\* account, one value d when the account constraints reject the instruction
\* before any argument is read.
Args(signer, target, S, d) == IF signer = target THEN S ELSE {d}

Init ==
    /\ accounts = [k \in Keys |-> NoAccount]
    /\ now = 0
    /\ overflow_checks \in BOOLEAN
    /\ last = Idle
    /\ event_log = [k \in Keys |-> EmptyLog]

\* The client has read the outcome of the last instruction.
Observe ==
    /\ ~Ready
    /\ last' = Idle
    /\ UNCHANGED <<accounts, now, overflow_checks, event_log>>

Tick ==
    /\ Ready
    /\ now < MaxTime
    /\ now' = now + 1
    /\ UNCHANGED <<accounts, overflow_checks, last, event_log>>

Initialize ==
    /\ Ready
    /\ \E signer \in Keys, target \in Keys :
       \E min_execution_interval \in Args(signer, target, Intervals, 2) :
         LET check == InitAccounts(accounts, signer, target) IN
         Transaction("initialize_arbitrage_state", signer, target,
                     [min_execution_interval |-> min_execution_interval],
                     IF check = "Ok"
                     THEN initialize_arbitrage_state(signer, min_execution_interval, now)
                     ELSE Rejected(accounts, target, check))

FlashArbitrage ==
    /\ Ready
    /\ TradeBudget
    /\ \E signer \in Keys, target \in Keys :
       \E routes \in Args(signer, target, RouteVecs, <<OrcaRoute>>),
          expected_profit \in Args(signer, target, ExpectedProfits, 1000) :
         LET check == UserAccounts(accounts, signer, target) IN
         Transaction("flash_arbitrage", signer, target,
                     [routes |-> routes, expected_profit |-> expected_profit],
                     IF check = "Ok"
                     THEN flash_arbitrage(accounts[target], signer, routes,
                                          expected_profit, now, overflow_checks)
                     ELSE Rejected(accounts, target, check))

OrcaSwap ==
    /\ Ready
    /\ TradeBudget
    /\ \E signer \in Keys, target \in Keys :
       \E req \in Args(signer, target, OrcaRequests,
                        OrcaRequest(GoodOrcaAccounts, 5, TRUE)) :
         LET check == OrcaSwapAccounts(accounts, signer, target, req.accs) IN
         Transaction("orca_swap", signer, target, req,
                     IF check = "Ok"
                     THEN orca_swap(accounts[target], signer, req.accs, req.amount,
                                    4, TRUE, req.swap_ok, now, overflow_checks)
                     ELSE Rejected(accounts, target, check))

FlashLoanArbitrage ==
    /\ Ready
    /\ TradeBudget
    /\ \E signer \in Keys, target \in Keys :
       \E loan \in Args(signer, target, Loans, Loan(1000000, 1000, "ok")),
          routes \in Args(signer, target, RouteVecs, <<OrcaRoute>>) :
         LET check == UserAccounts(accounts, signer, target)
             flash_loan_amount == loan.flash_loan_amount
             expected_profit == loan.expected_profit
             lending == loan.lending
         IN
         Transaction("flash_loan_arbitrage", signer, target,
                     [flash_loan_amount |-> flash_loan_amount, routes |-> routes,
                      expected_profit |-> expected_profit, lending |-> lending],
                     IF check = "Ok"
                     THEN flash_loan_arbitrage(accounts[target], signer,
                                               flash_loan_amount, routes,
                                               expected_profit, lending, now,
                                               overflow_checks)
                     ELSE Rejected(accounts, target, check))

PauseBot ==
    /\ Ready
    /\ \E signer \in Keys, target \in Keys :
         LET check == AuthorityAccounts(accounts, signer, target) IN
         Transaction("pause_bot", signer, target, <<>>,
                     IF check = "Ok"
                     THEN pause_bot(accounts[target], signer, now)
                     ELSE Rejected(accounts, target, check))

ResumeBot ==
    /\ Ready
    /\ \E signer \in Keys, target \in Keys :
         LET check == AuthorityAccounts(accounts, signer, target) IN
         Transaction("resume_bot", signer, target, <<>>,
                     IF check = "Ok"
                     THEN resume_bot(accounts[target], signer, now)
                     ELSE Rejected(accounts, target, check))

UpdateBotConfig ==
    /\ Ready
    /\ \E signer \in Keys, target \in Keys :
       \E new_min_execution_interval \in Args(signer, target, IntervalOptions, None) :
         LET check == AuthorityAccounts(accounts, signer, target) IN
         Transaction("update_bot_config", signer, target,
                     [new_min_execution_interval |-> new_min_execution_interval],
                     IF check = "Ok"
                     THEN update_bot_config(accounts[target], signer,
                                            new_min_execution_interval, now)
                     ELSE Rejected(accounts, target, check))

WithdrawProfits ==
    /\ Ready
    /\ \E signer \in Keys, target \in Keys :
       \E amount \in Args(signer, target, WithdrawAmounts, 1000) :
         LET check == AuthorityAccounts(accounts, signer, target) IN
         Transaction("withdraw_profits", signer, target, [amount |-> amount],
                     IF check = "Ok"
                     THEN withdraw_profits(accounts[target], signer, amount, now)
                     ELSE Rejected(accounts, target, check))

Next ==
    \/ Observe
    \/ Tick
    \/ Initialize
    \/ FlashArbitrage
    \/ OrcaSwap
    \/ FlashLoanArbitrage
    \/ PauseBot
    \/ ResumeBot
    \/ UpdateBotConfig
    \/ WithdrawProfits

Spec == Init /\ [][Next]_vars

----------------------------------------------------------------------------
(* Vocabulary of the properties: the instruction recorded in `last`. *)

Ran(op) == last.op = op
Pre == last.pre[last.target]
Post == accounts[last.target]
Committed == last.result = "Ok"
StateUnchanged == accounts = last.pre
NoEvents == last.events = <<>>
NoCalls == last.calls = <<>>

ArbitrageOps == {"flash_arbitrage", "flash_loan_arbitrage"}
ExecutionOps == ArbitrageOps \cup {"orca_swap"}
AdminOps == {"pause_bot", "resume_bot", "update_bot_config", "withdraw_profits"}

\* The event an execution emits when it commits.
ExecutionEvent(op) ==
    CASE op = "flash_arbitrage" -> "ArbitrageExecuted"
      [] op = "flash_loan_arbitrage" -> "FlashLoanArbitrageExecuted"
      [] op = "orca_swap" -> "OrcaSwapExecuted"

\* The instruction addressed an existing account with the signer's own seeds.
Admitted == Pre.initialized /\ last.signer = last.target

\* The execution passed every account constraint and entered its handler.
ReachedHandler ==
    /\ Admitted
    /\ Ran("orca_swap") =>
          OrcaSwapAccounts(last.pre, last.signer, last.target, last.args.accs) = "Ok"

ValidRoute(r) ==
    r.amount_in > 0 /\ r.min_amount_out > 0 /\ r.input_mint # r.output_mint
ValidRoutes(routes) ==
    Len(routes) \in 1..4 /\ \A i \in 1..Len(routes) : ValidRoute(routes[i])

\* The accounts other than the addressed one are as they were.
OthersUnchanged == \A k \in Keys \ {last.target} : accounts[k] = last.pre[k]

----------------------------------------------------------------------------
(* C1 *)

\* C1: all-or-nothing execution.  An attempt of flash_arbitrage or
\* flash_loan_arbitrage either commits (total_trades is one more than before,
\* exactly one event, the execution event of the instruction, is emitted) or
\* fails (every account is as it was before the attempt, no event is emitted),
\* whatever the phase it failed in.
C1_AllOrNothing ==
    last.op \in ArbitrageOps =>
        \/ /\ Committed
           /\ Post.total_trades = Pre.total_trades + 1
           /\ Len(last.events) = 1
           /\ last.events[1].kind = ExecutionEvent(last.op)
           /\ OthersUnchanged
        \/ /\ ~Committed
           /\ StateUnchanged
           /\ NoEvents

\* A flash loan attempt with valid routes that borrowed, swapped and repaid
\* and then failed the profit check: nothing changed, nothing was emitted.
C1_Witness ==
    /\ Ran("flash_loan_arbitrage")
    /\ ValidRoutes(last.args.routes)
    /\ last.result = "InsufficientProfit"
    /\ Len(last.calls) = Len(last.args.routes) + 2
    /\ Pre.total_trades = 1
    /\ StateUnchanged /\ NoEvents

----------------------------------------------------------------------------
(* C2 *)

\* An attempt of flash_arbitrage that no check other than the rate limit
\* stops: the account constraints and the safety checks pass and the
\* counters can take the update.
OtherwiseAdmissible ==
    /\ Ran("flash_arbitrage")
    /\ Admitted
    /\ SafetyChecks(Pre, last.args.routes, last.args.expected_profit) = "Ok"
    /\ ~UpdatePanics(Pre, last.args.expected_profit, overflow_checks)

\* C2: rate-limit boundary of flash_arbitrage.  With I the interval and t the
\* time left by the previous execution, an otherwise admissible attempt at a
\* time now with now - t < I fails ExecutionTooFrequent and changes nothing;
\* at now - t >= I it commits.
C2_RateLimitBoundary ==
    OtherwiseAdmissible =>
        IF last.time - Pre.last_execution_time < Pre.min_execution_interval
        THEN last.result = "ExecutionTooFrequent" /\ StateUnchanged /\ NoEvents
        ELSE Committed /\ Post.last_execution_time = last.time

\* An attempt at t + I - 1 after an execution committed at t > 0: refused.
C2_Witness ==
    /\ OtherwiseAdmissible
    /\ Pre.total_trades = 1
    /\ Pre.min_execution_interval = 2
    /\ Pre.last_execution_time = 1
    /\ last.time = Pre.last_execution_time + Pre.min_execution_interval - 1
    /\ last.result = "ExecutionTooFrequent"

----------------------------------------------------------------------------
(* C3 *)

\* C3: minimum spacing of successful executions.  Every execution of any
\* kind (flash_arbitrage, flash_loan_arbitrage, orca_swap) that commits does
\* so at a time now with now - last_execution_time >= min_execution_interval,
\* last_execution_time being the value the previous execution left.
C3_MinimumSpacing ==
    (last.op \in ExecutionOps /\ Committed) =>
        last.time - Pre.last_execution_time >= Pre.min_execution_interval

----------------------------------------------------------------------------
(* C4 *)

\* C4: pause gating.  On a paused account no execution entry point commits,
\* whatever its input: the account is unchanged and nothing is emitted, and an
\* attempt that passes the account constraints fails BotPaused before any
\* external call.
C4_PauseGating ==
    (last.op \in ExecutionOps /\ Pre.initialized /\ Pre.is_paused) =>
        /\ ~Committed
        /\ StateUnchanged
        /\ NoEvents
        /\ NoCalls
        /\ (ReachedHandler => last.result = "BotPaused")

\* A flash loan attempt on a paused account that nothing else would stop.
C4_Witness ==
    /\ Ran("flash_loan_arbitrage")
    /\ Admitted
    /\ Pre.is_paused
    /\ ValidRoutes(last.args.routes)
    /\ last.args.expected_profit = 1000
    /\ last.args.flash_loan_amount = 1000000
    /\ last.args.lending = "ok"
    /\ last.result = "BotPaused"

----------------------------------------------------------------------------
(* C5 *)

\* C5: authorization of the administrative instructions.  pause_bot,
\* resume_bot, update_bot_config and withdraw_profits signed by a key other
\* than the authority of the addressed account fail with Unauthorized, change
\* no account and emit nothing; signed by the authority they are not rejected
\* for authorization.
C5_AdminUnauthorized ==
    (last.op \in AdminOps /\ Pre.initialized) =>
        IF last.signer # Pre.authority
        THEN last.result = "Unauthorized" /\ StateUnchanged /\ NoEvents
        ELSE last.result # "Unauthorized"

----------------------------------------------------------------------------
(* C6 *)

\* The profit of a committed execution, as its event reports it.
EventProfit ==
    IF last.op = "orca_swap" THEN 0 ELSE last.events[1].profit

Counters(st) ==
    IF st.initialized
    THEN <<st.total_trades, st.total_profit, st.last_execution_time>>
    ELSE <<>>

\* C6: counter step.  A committed execution adds exactly 1 to total_trades,
\* adds exactly the profit of the execution (the one in its event) to
\* total_profit and sets last_execution_time to the current time; every other
\* step except initialize leaves the three counters of every account as they
\* were.
C6_CounterStep ==
    /\ (last.op \in ExecutionOps /\ Committed) =>
          /\ Post.total_trades = Pre.total_trades + 1
          /\ Post.total_profit = Pre.total_profit + EventProfit
          /\ Post.last_execution_time = last.time
          /\ OthersUnchanged
    /\ (last.op \notin {"none", "initialize_arbitrage_state"}
        /\ ~(last.op \in ExecutionOps /\ Committed)) =>
          \A k \in Keys : Counters(accounts[k]) = Counters(last.pre[k])

----------------------------------------------------------------------------
(* C7 *)

\* C7: route-count bounds.  An attempt on an account that is not paused fails
\* EmptyRoutes with no route and TooManyHops with five or more, and with 1 to
\* 4 routes it passes the route-count check; a committed execution had 1 to 4
\* routes and its event carries that count.
C7_RouteCountBounds ==
    last.op \in ArbitrageOps =>
        LET n == Len(last.args.routes) IN
        /\ (Admitted /\ ~Pre.is_paused) =>
              /\ (n = 0 => last.result = "EmptyRoutes")
              /\ (n >= 5 => last.result = "TooManyHops")
              /\ (n \in 1..4 => last.result \notin {"EmptyRoutes", "TooManyHops"})
        /\ Committed => (n \in 1..4 /\ last.events[1].routes = n)

\* An execution with four routes committed.
C7_Witness ==
    /\ Ran("flash_arbitrage")
    /\ Len(last.args.routes) = 4
    /\ Committed
    /\ last.events[1].routes = 4

----------------------------------------------------------------------------
(* C8 *)

\* The admission conditions an attempt violates, numbered in the fixed order
\* 1 BotPaused, 2 EmptyRoutes, 3 TooManyHops, 4 InvalidAmount (declared profit
\* target 0), 5 ExecutionTooFrequent.
ViolatedChecks ==
    {i \in 1..5 :
        \/ i = 1 /\ Pre.is_paused
        \/ i = 2 /\ Len(last.args.routes) = 0
        \/ i = 3 /\ Len(last.args.routes) > 4
        \/ i = 4 /\ last.args.expected_profit = 0
        \/ i = 5 /\ last.time - Pre.last_execution_time < Pre.min_execution_interval}

ErrorOfCheck(i) ==
    CASE i = 1 -> "BotPaused"
      [] i = 2 -> "EmptyRoutes"
      [] i = 3 -> "TooManyHops"
      [] i = 4 -> "InvalidAmount"
      [] i = 5 -> "ExecutionTooFrequent"

FirstViolated == CHOOSE i \in ViolatedChecks : \A j \in ViolatedChecks : i <= j

AdmissionErrors ==
    {"BotPaused", "EmptyRoutes", "TooManyHops", "InvalidAmount", "ExecutionTooFrequent"}

\* C8: admission order.  When an attempt violates several admission
\* conditions at once, the error is that of the first violated check in the
\* fixed order; and an attempt that fails admission has made no external call
\* (and changed and emitted nothing).
C8_AdmissionOrder ==
    (last.op \in ArbitrageOps /\ Admitted) =>
        /\ Cardinality(ViolatedChecks) >= 2 =>
              last.result = ErrorOfCheck(FirstViolated)
        /\ last.result \in AdmissionErrors =>
              (NoCalls /\ StateUnchanged /\ NoEvents)

\* Five routes, a zero profit target and the rate limit, all violated at once
\* on a running account: the error is TooManyHops.
C8_Witness ==
    /\ Ran("flash_arbitrage")
    /\ Admitted
    /\ ViolatedChecks = {3, 4, 5}
    /\ last.result = "TooManyHops"
    /\ NoCalls

----------------------------------------------------------------------------
(* C9, C10 *)

\* floor(amount * 9 / 10000)
ExactFee(amount) == (amount * 9) \div 10000

\* A flash loan attempt that got as far as the profit check: the account
\* constraints and the admission checks passed, the lending program accepted
\* both invokes and nothing panicked.
ReachedProfitCheck ==
    /\ Ran("flash_loan_arbitrage")
    /\ Admitted
    /\ SafetyChecks(Pre, last.args.routes, last.args.expected_profit) = "Ok"
    /\ last.args.flash_loan_amount > 0
    /\ last.args.lending = "ok"
    /\ last.result # "Panic"

\* C9: profit guard (declared strategy).  With fee = floor(amount*9/10000), a
\* flash loan attempt commits with recorded profit expected_profit - fee when
\* expected_profit > fee, and fails InsufficientProfit, changing and emitting
\* nothing, when expected_profit <= fee.
C9_ProfitGuard ==
    ReachedProfitCheck =>
        LET fee == ExactFee(last.args.flash_loan_amount)
            expected_profit == last.args.expected_profit
        IN IF expected_profit > fee
           THEN Committed /\ last.events[1].profit = expected_profit - fee
           ELSE last.result = "InsufficientProfit" /\ StateUnchanged /\ NoEvents

\* The repay calls of the recorded instruction.
RepayCalls == {i \in 1..Len(last.calls) : last.calls[i].kind = "repay"}

\* C10: fee determinism.  For every flash_loan_amount the amount repaid is
\* flash_loan_amount + floor(flash_loan_amount*9/10000), the fee truncated.
C10_FeeDeterminism ==
    Ran("flash_loan_arbitrage") =>
        \A i \in RepayCalls :
            last.calls[i].amount =
                last.args.flash_loan_amount + ExactFee(last.args.flash_loan_amount)

----------------------------------------------------------------------------
(* C11 *)

\* The value an operation on u64 may leave when it does not fail: the
\* mathematical result, or the maximum when the result does not fit.
Unwrapped(exact) == IF exact > U64Max THEN {U64Max} ELSE {exact}

\* C11: no silent wrap-around.  The fee amount*9/10000, the repayment
\* amount + fee, total_trades + 1 and total_profit + profit are never a value
\* reduced modulo the width of u64: each is the mathematical result, or the
\* maximum (saturation), or the instruction fails with ArithmeticError and
\* every account is as it was; an overflow is never reported in another way.
C11_NoWrapAround ==
    /\ Ran("flash_loan_arbitrage") =>
          \A i \in RepayCalls :
              \E fee \in Unwrapped(ExactFee(last.args.flash_loan_amount)) :
                  last.calls[i].amount \in Unwrapped(last.args.flash_loan_amount + fee)
    /\ (last.op \in ExecutionOps /\ Committed) =>
          /\ Post.total_trades \in Unwrapped(Pre.total_trades + 1)
          /\ Post.total_profit \in Unwrapped(Pre.total_profit + EventProfit)
    /\ last.result = "ArithmeticError" => StateUnchanged
    /\ last.result # "Panic"

----------------------------------------------------------------------------
(* C12 *)

\* An attempt of flash_arbitrage that every check admits and whose profit
\* does not fit on top of the accumulated total_profit.
ProfitPastMaximum ==
    /\ Ran("flash_arbitrage")
    /\ Admitted
    /\ SafetyChecks(Pre, last.args.routes, last.args.expected_profit) = "Ok"
    /\ RateLimitOk(Pre, last.time)
    /\ Pre.total_profit + last.args.expected_profit > U64Max

\* C12: monotonic counters.  No instruction on an existing account lowers its
\* total_trades, total_profit or last_execution_time (the clock does not go
\* back); and a commit whose profit would push total_profit past the maximum
\* of u64 still succeeds and leaves total_profit at that maximum.
C12_MonotonicCounters ==
    /\ (last.op # "none" /\ Pre.initialized) =>
          /\ Post.total_trades >= Pre.total_trades
          /\ Post.total_profit >= Pre.total_profit
          /\ Post.last_execution_time >= Pre.last_execution_time
    /\ ProfitPastMaximum => (Committed /\ Post.total_profit = U64Max)

----------------------------------------------------------------------------
(* C13 *)

ZeroAmount(r) == r.amount_in = 0 \/ r.min_amount_out = 0
SameAsset(r) == r.input_mint = r.output_mint

\* An attempt that got as far as the loop over the routes.
ReachedRoutes ==
    /\ last.op \in ArbitrageOps
    /\ Admitted
    /\ SafetyChecks(Pre, last.args.routes, last.args.expected_profit) = "Ok"
    /\ Ran("flash_arbitrage") => RateLimitOk(Pre, last.time)
    /\ Ran("flash_loan_arbitrage") =>
          (last.args.flash_loan_amount > 0 /\ last.args.lending # "borrow_fails")

\* C13: per-route validation.  An attempt that passes admission with a route
\* whose amount_in or min_amount_out is 0 fails InvalidAmount, and one with a
\* route whose input and output asset are the same fails InvalidSwapPair; the
\* accounts are unchanged and nothing is emitted; no execution commits with
\* such a route.
C13_RouteValidation ==
    last.op \in ArbitrageOps =>
        LET routes == last.args.routes
            bad == {i \in 1..Len(routes) : ~ValidRoute(routes[i])}
        IN
        /\ Committed => bad = {}
        /\ (ReachedRoutes /\ bad # {}) =>
              LET r == routes[CHOOSE i \in bad : \A j \in bad : i <= j] IN
              /\ ZeroAmount(r) => last.result = "InvalidAmount"
              /\ (~ZeroAmount(r) /\ SameAsset(r)) => last.result = "InvalidSwapPair"
              /\ StateUnchanged
              /\ NoEvents

----------------------------------------------------------------------------
(* C14 *)

\* What the handler of the recorded arbitrage instruction makes of the
\* addressed account and the arguments, the account constraints left aside.
HandlerOutcome ==
    IF Ran("flash_arbitrage")
    THEN flash_arbitrage(Pre, last.signer, last.args.routes,
                         last.args.expected_profit, last.time, overflow_checks)
    ELSE flash_loan_arbitrage(Pre, last.signer, last.args.flash_loan_amount,
                              last.args.routes, last.args.expected_profit,
                              last.args.lending, last.time, overflow_checks)

\* C14 as stated: execution is not authority-gated.  An arbitrage attempt by a
\* caller other than the authority of the addressed account, for which
\* admission and every phase succeed, commits on that account: total_trades
\* is counted and the event carries the caller; no attempt is rejected
\* because the caller is not the authority.
C14_NotAuthorityGated ==
    (last.op \in ArbitrageOps /\ Pre.initialized /\ last.signer # Pre.authority
     /\ HandlerOutcome.result = "Ok") =>
        /\ Committed
        /\ Post.total_trades = Pre.total_trades + 1
        /\ last.events[1].user = last.signer

\* C14, amended: execution has no has_one check but the account of an
\* execution is the one derived from the caller's key.  An arbitrage attempt
\* by a caller other than the authority of the addressed account fails
\* ConstraintSeeds (never Unauthorized), changes nothing, emits nothing and
\* makes no external call; every commit is by the authority of the account,
\* on its own account, and its event carries the caller; and the authority's
\* own attempt has the outcome of the handler.
C14_ExecutionOwnRecord ==
    (last.op \in ArbitrageOps /\ Pre.initialized) =>
        /\ last.signer # Pre.authority =>
              (last.result = "ConstraintSeeds" /\ StateUnchanged /\ NoEvents /\ NoCalls)
        /\ Committed =>
              /\ last.signer = Pre.authority
              /\ last.target = last.signer
              /\ last.events[1].user = last.signer
        /\ last.signer = Pre.authority => last.result = HandlerOutcome.result
        /\ last.result # "Unauthorized"

\* bob, who has an account of his own, attempts an execution that the handler
\* would commit on alice's running account and is refused.
C14_Witness ==
    /\ Ran("flash_arbitrage")
    /\ last.signer = "bob" /\ last.target = "alice"
    /\ accounts["bob"].initialized
    /\ Pre.initialized /\ Pre.authority = "alice" /\ ~Pre.is_paused
    /\ HandlerOutcome.result = "Ok"
    /\ last.result = "ConstraintSeeds"

----------------------------------------------------------------------------
(* C15 *)

\* The transfers among the external calls of the recorded instruction.
TransferCalls == {i \in 1..Len(last.calls) : last.calls[i].kind = "transfer"}

\* C15: withdrawal preconditions.  withdraw_profits(amount) by the authority
\* succeeds only with amount > 0 (and a sufficient balance), and then exactly
\* amount is moved, by one transfer, and one ProfitsWithdrawn event carrying
\* amount is emitted; otherwise it fails InsufficientBalance, moves nothing
\* and emits nothing.
C15_WithdrawPreconditions ==
    (Ran("withdraw_profits") /\ Admitted) =>
        IF Committed
        THEN /\ last.args.amount > 0
             /\ Cardinality(TransferCalls) = 1
             /\ \A i \in TransferCalls : last.calls[i].amount = last.args.amount
             /\ Len(last.events) = 1
             /\ last.events[1].kind = "ProfitsWithdrawn"
             /\ last.events[1].amount = last.args.amount
        ELSE /\ last.result = "InsufficientBalance"
             /\ TransferCalls = {}
             /\ NoEvents
             /\ StateUnchanged

----------------------------------------------------------------------------
(* C16 *)

\* C16: config validation.  update_bot_config by the authority with a new
\* interval v < 0 fails InvalidAmount, leaves every field as it was and emits
\* nothing; with v >= 0 it sets min_execution_interval to v, leaves the other
\* fields, and emits one BotConfigUpdated event carrying v.
C16_ConfigValidation ==
    (Ran("update_bot_config") /\ Admitted
     /\ last.args.new_min_execution_interval.some) =>
        LET v == last.args.new_min_execution_interval.val IN
        IF v < 0
        THEN last.result = "InvalidAmount" /\ StateUnchanged /\ NoEvents
        ELSE /\ Committed
             /\ Post = [Pre EXCEPT !.min_execution_interval = v]
             /\ OthersUnchanged
             /\ Len(last.events) = 1
             /\ last.events[1].kind = "BotConfigUpdated"
             /\ last.events[1].new_min_execution_interval = Some(v)

----------------------------------------------------------------------------
(* C17 *)

\* C17: non-negative interval.  In every reachable state the
\* min_execution_interval of every account is >= 0, whatever values were
\* passed to initialize_arbitrage_state and update_bot_config.
C17_IntervalNonNegative ==
    \A k \in Keys :
        accounts[k].initialized => accounts[k].min_execution_interval >= 0

----------------------------------------------------------------------------
(* C18 *)

\* C18: initialization.  initialize_arbitrage_state by an authority that has
\* no account creates it with authority = the caller, is_paused = FALSE,
\* min_execution_interval = the argument, last_execution_time = 0,
\* total_trades = 0 and total_profit = 0, and emits exactly one
\* ArbitrageStateInitialized event; when the account already exists the
\* instruction fails and leaves it as it was.
C18_Initialization ==
    Ran("initialize_arbitrage_state") =>
        /\ (last.signer = last.target /\ ~Pre.initialized) =>
              /\ Committed
              /\ Post.initialized
              /\ Post.authority = last.signer
              /\ Post.is_paused = FALSE
              /\ Post.min_execution_interval = last.args.min_execution_interval
              /\ Post.last_execution_time = 0
              /\ Post.total_trades = 0
              /\ Post.total_profit = 0
              /\ OthersUnchanged
              /\ Len(last.events) = 1
              /\ last.events[1].kind = "ArbitrageStateInitialized"
              /\ last.events[1].authority = last.signer
        /\ Pre.initialized => (~Committed /\ StateUnchanged /\ NoEvents)
        /\ Committed => (last.signer = last.target /\ ~Pre.initialized)

\* initialize on an account that exists, has counted a trade and is paused:
\* it fails and the account keeps its trade, its profit and its pause.
C18_Witness ==
    /\ Ran("initialize_arbitrage_state")
    /\ last.signer = last.target
    /\ Pre.initialized
    /\ Pre.total_trades = 1 /\ Pre.total_profit > 0 /\ Pre.is_paused
    /\ last.args.min_execution_interval # Pre.min_execution_interval
    /\ ~Committed
    /\ Post = Pre

----------------------------------------------------------------------------
(* C19 *)

\* What flash_arbitrage by the same caller, with one valid route and a profit
\* target of 1000, makes of the account the recorded instruction left.
ExecutionAfter ==
    flash_arbitrage(Post, last.signer, <<OrcaRoute>>, 1000, last.time, overflow_checks)

\* The rate limit and the counters admit that execution.
AdmissibleAfter ==
    RateLimitOk(Post, last.time) /\ ~UpdatePanics(Post, 1000, overflow_checks)

\* C19: pause / resume.  pause_bot by the authority succeeds whatever the
\* flag was and leaves is_paused = TRUE and every other field as it was (so a
\* second pause changes nothing more); resume_bot likewise leaves
\* is_paused = FALSE; each emits exactly one event, BotPaused or BotResumed,
\* with the actor and the time; after a resume an otherwise admissible
\* execution commits again, after a pause it fails BotPaused.
C19_PauseResume ==
    (last.op \in {"pause_bot", "resume_bot"} /\ Admitted) =>
        LET flag == Ran("pause_bot") IN
        /\ Committed
        /\ Post = [Pre EXCEPT !.is_paused = flag]
        /\ OthersUnchanged
        /\ Len(last.events) = 1
        /\ last.events[1].kind = (IF flag THEN "BotPaused" ELSE "BotResumed")
        /\ last.events[1].authority = last.signer
        /\ last.events[1].timestamp = last.time
        /\ flag => ExecutionAfter.result = "BotPaused"
        /\ (~flag /\ AdmissibleAfter) => ExecutionAfter.result = "Ok"

\* pause_bot on an account that is already paused: it succeeds, emits its
\* event and leaves the account exactly as it was.
C19_Witness ==
    /\ Ran("pause_bot")
    /\ Admitted
    /\ Pre.is_paused
    /\ Committed
    /\ Post = Pre
    /\ Len(last.events) = 1

----------------------------------------------------------------------------
(* C20 *)

\* The event of each instruction.
EventOf(op) ==
    CASE op \in ExecutionOps -> ExecutionEvent(op)
      [] op = "initialize_arbitrage_state" -> "ArbitrageStateInitialized"
      [] op = "pause_bot" -> "BotPaused"
      [] op = "resume_bot" -> "BotResumed"
      [] op = "update_bot_config" -> "BotConfigUpdated"
      [] op = "withdraw_profits" -> "ProfitsWithdrawn"

\* Every instruction that succeeded emitted exactly one event, of its kind,
\* and every one that failed emitted none.
OneEventPerSuccess ==
    last.op # "none" =>
        IF Committed
        THEN Len(last.events) = 1 /\ last.events[1].kind = EventOf(last.op)
        ELSE NoEvents

\* total_profit is the sum of the profit fields of the ArbitrageExecuted and
\* FlashLoanArbitrageExecuted events of the account, as long as that sum fits.
ProfitMatchesLog ==
    \A k \in Keys :
        (accounts[k].initialized /\ event_log[k].profit <= U64Max) =>
            accounts[k].total_profit = event_log[k].profit

\* C20 as stated: the audit trail matches the counters.  Every successful
\* instruction appended exactly one event of its kind and every failed one
\* none; total_trades of an account is the number of ArbitrageExecuted plus
\* FlashLoanArbitrageExecuted events emitted for it, and, absent overflow,
\* total_profit is the sum of their profit fields.
C20_AuditTrail ==
    /\ OneEventPerSuccess
    /\ \A k \in Keys :
          accounts[k].initialized =>
              accounts[k].total_trades = event_log[k].executed
    /\ ProfitMatchesLog

\* C20, amended: as above, except that total_trades is the number of
\* ArbitrageExecuted, FlashLoanArbitrageExecuted and OrcaSwapExecuted events
\* emitted for the account (orca_swap counts a trade and emits its own kind
\* of event, which carries no profit).
C20_AuditTrailWithSwaps ==
    /\ OneEventPerSuccess
    /\ \A k \in Keys :
          accounts[k].initialized =>
              accounts[k].total_trades =
                  event_log[k].executed + event_log[k].swapped
    /\ ProfitMatchesLog

\* An orca_swap committed on an account that had one arbitrage execution.
C20_Witness ==
    /\ Ran("orca_swap")
    /\ Committed
    /\ last.events[1].kind = "OrcaSwapExecuted"
    /\ event_log[last.target] = [executed |-> 1, profit |-> 1000, swapped |-> 1]
    /\ Post.total_trades = 2
    /\ Post.total_profit = 1000

----------------------------------------------------------------------------
(* C21 *)

\* The positions of the calls of one kind among the external calls of the
\* recorded instruction.
CallsOfKind(kind) == {i \in 1..Len(last.calls) : last.calls[i].kind = kind}

\* C21: flash-loan call ordering.  In every attempt of flash_loan_arbitrage
\* the borrow of flash_loan_amount is the first call; the swap dispatches
\* follow it in the order of the routes, one per route and at most 4; the
\* repay call, of exactly flash_loan_amount + floor(flash_loan_amount*9/10000),
\* follows the last swap; the commit and the event follow the repay; a
\* failure of borrow or repay is terminal, so no attempt commits with a loan
\* borrowed and not repaid.
C21_CallOrdering ==
    Ran("flash_loan_arbitrage") =>
        LET calls == last.calls
            routes == last.args.routes
            n == Len(routes)
            amount == last.args.flash_loan_amount
        IN
        /\ CallsOfKind("borrow") \subseteq {1}
        /\ calls # <<>> => (calls[1].kind = "borrow" /\ calls[1].amount = amount)
        /\ CallsOfKind("swap") \subseteq 2..(n + 1)
        /\ Cardinality(CallsOfKind("swap")) <= 4
        /\ \A i \in CallsOfKind("swap") :
              /\ calls[i].dex = routes[i - 1].dex_id
              /\ calls[i].amount_in = routes[i - 1].amount_in
              /\ calls[i].min_amount_out = routes[i - 1].min_amount_out
        /\ Len(calls) > 1 => CallsOfKind("swap") = 2..(n + 1)
        /\ CallsOfKind("repay") \subseteq {n + 2}
        /\ \A i \in CallsOfKind("repay") :
              calls[i].amount = amount + ExactFee(amount)
        /\ Committed => (Len(calls) = n + 2 /\ calls[n + 2].kind = "repay")
        /\ (calls # <<>> /\ last.args.lending = "borrow_fails") =>
              (Len(calls) = 1 /\ ~Committed /\ StateUnchanged /\ NoEvents)
        /\ (CallsOfKind("repay") # {} /\ last.args.lending = "repay_fails") =>
              (~Committed /\ StateUnchanged /\ NoEvents)

----------------------------------------------------------------------------
(* C22 *)

\* The accounts before the recorded instruction with every account other
\* than the addressed one absent.
Alone == [k \in Keys |-> IF k = last.target THEN last.pre[k] ELSE NoAccount]

\* The outcome of the recorded instruction, same signer, arguments, clock and
\* build, when it runs on the accounts accts.
Replay(accts) ==
    LET signer == last.signer
        target == last.target
        args == last.args
        st == accts[target]
        oc == overflow_checks
        user == UserAccounts(accts, signer, target)
        admin == AuthorityAccounts(accts, signer, target)
        init == InitAccounts(accts, signer, target)
        orca == IF Ran("orca_swap")
                THEN OrcaSwapAccounts(accts, signer, target, args.accs)
                ELSE "Ok"
    IN
    CASE Ran("initialize_arbitrage_state") ->
           IF init = "Ok"
           THEN initialize_arbitrage_state(signer, args.min_execution_interval, last.time)
           ELSE Rejected(accts, target, init)
      [] Ran("flash_arbitrage") ->
           IF user = "Ok"
           THEN flash_arbitrage(st, signer, args.routes, args.expected_profit, last.time, oc)
           ELSE Rejected(accts, target, user)
      [] Ran("orca_swap") ->
           IF orca = "Ok"
           THEN orca_swap(st, signer, args.accs, args.amount, 4, TRUE, args.swap_ok, last.time, oc)
           ELSE Rejected(accts, target, orca)
      [] Ran("flash_loan_arbitrage") ->
           IF user = "Ok"
           THEN flash_loan_arbitrage(st, signer, args.flash_loan_amount, args.routes, args.expected_profit, args.lending, last.time, oc)
           ELSE Rejected(accts, target, user)
      [] Ran("pause_bot") ->
           IF admin = "Ok" THEN pause_bot(st, signer, last.time)
           ELSE Rejected(accts, target, admin)
      [] Ran("resume_bot") ->
           IF admin = "Ok" THEN resume_bot(st, signer, last.time)
           ELSE Rejected(accts, target, admin)
      [] Ran("update_bot_config") ->
           IF admin = "Ok"
           THEN update_bot_config(st, signer, args.new_min_execution_interval, last.time)
           ELSE Rejected(accts, target, admin)
      [] Ran("withdraw_profits") ->
           IF admin = "Ok" THEN withdraw_profits(st, signer, args.amount, last.time)
           ELSE Rejected(accts, target, admin)

\* C22: independence of records.  An instruction addressed to the account of
\* one authority changes no other account, and its result, its events, its
\* external calls and the state it leaves in the addressed account are those
\* of the same instruction run with no other account present: it reads no
\* other account.  Hence in any interleaving each record ends, with the same
\* events, as if its own instructions had run alone in the same order.
C22_Independence ==
    last.op # "none" =>
        LET alone == Replay(Alone) IN
        /\ OthersUnchanged
        /\ last.result = alone.result
        /\ last.events = alone.events
        /\ last.calls = alone.calls
        /\ Committed => Post = alone.st
        /\ ~Committed => Post = Pre

\* alice's execution commits while bob's account exists, has counted a trade
\* of its own and is paused: bob's account is untouched, alice's is counted.
C22_Witness ==
    /\ Ran("flash_arbitrage")
    /\ last.target = "alice"
    /\ Committed
    /\ last.pre["bob"].initialized
    /\ last.pre["bob"].is_paused
    /\ last.pre["bob"].total_trades = 1
    /\ accounts["bob"] = last.pre["bob"]
    /\ Post.total_trades = Pre.total_trades + 1

----------------------------------------------------------------------------
(* C23 *)

\* C23: update_bot_config with no new value.  update_bot_config(None) by the
\* authority succeeds, leaves min_execution_interval and every other field of
\* the account as they were, and emits exactly one BotConfigUpdated event
\* whose new value is None; update_bot_config(Some(v)) changes no field other
\* than min_execution_interval.
C23_UpdateNone ==
    (Ran("update_bot_config") /\ Admitted) =>
        LET new == last.args.new_min_execution_interval IN
        /\ OthersUnchanged
        /\ ~new.some =>
              /\ Committed
              /\ Post = Pre
              /\ Len(last.events) = 1
              /\ last.events[1].kind = "BotConfigUpdated"
              /\ last.events[1].new_min_execution_interval = None
              /\ last.events[1].authority = last.signer
        /\ new.some =>
              Post = [Pre EXCEPT !.min_execution_interval = Post.min_execution_interval]

\* update_bot_config(None) on a paused account with interval 2 and a trade
\* counted: it succeeds and the account is as it was.
C23_Witness ==
    /\ Ran("update_bot_config")
    /\ Admitted
    /\ last.args.new_min_execution_interval = None
    /\ Pre.min_execution_interval = 2
    /\ Pre.total_trades = 1
    /\ Pre.is_paused
    /\ Committed
    /\ Post = Pre
    /\ last.events[1].new_min_execution_interval = None

----------------------------------------------------------------------------
(* C24 *)

\* C24: profit verification precedes repayment.  In flash_loan_arbitrage the
\* profit check comes after the last swap and before the repay call: an
\* attempt that fails InsufficientProfit has dispatched every swap and has
\* issued no repay call.
C24_ProfitCheckBeforeRepay ==
    (Ran("flash_loan_arbitrage") /\ last.result = "InsufficientProfit") =>
        /\ Cardinality(CallsOfKind("swap")) = Len(last.args.routes)
        /\ CallsOfKind("repay") = {}

----------------------------------------------------------------------------
(* C25 *)

\* C25: field ownership.  On an account that exists, no instruction changes
\* authority or bump; is_paused is changed only by pause_bot and resume_bot;
\* min_execution_interval is changed only by update_bot_config; the
\* executions (flash_arbitrage, flash_loan_arbitrage, orca_swap) change none
\* of authority, is_paused and min_execution_interval; and withdraw_profits
\* changes no field of any account, total_profit included.
C25_FieldOwnership ==
    (last.op # "none" /\ Pre.initialized) =>
        /\ Post.initialized
        /\ Post.authority = Pre.authority
        /\ Post.bump = Pre.bump
        /\ Post.is_paused # Pre.is_paused =>
              last.op \in {"pause_bot", "resume_bot"}
        /\ Post.min_execution_interval # Pre.min_execution_interval =>
              Ran("update_bot_config")
        /\ last.op \in ExecutionOps =>
              /\ Post.authority = Pre.authority
              /\ Post.is_paused = Pre.is_paused
              /\ Post.min_execution_interval = Pre.min_execution_interval
        /\ Ran("withdraw_profits") => StateUnchanged

\* withdraw_profits(1000) succeeds on an account that has recorded a profit
\* of 1000: total_profit and every other field are as they were.
C25_Witness ==
    /\ Ran("withdraw_profits")
    /\ Committed
    /\ last.args.amount = 1000
    /\ Pre.total_profit = 1000
    /\ Post = Pre
    /\ StateUnchanged

====
